---- MODULE Spec2Model ----
(***************************************************************************)
(* Model of the shoe-product HTTP handlers (src/src/handlers.ts) and of    *)
(* the earlier variant of the same handlers (src/unnamed/part_000).        *)
(*                                                                         *)
(* The DynamoDB table, the uuid generator and the Stripe API are external  *)
(* collaborators; they are modelled by their documented behaviour at the   *)
(* call sites in the handlers.  Strings are sequences of character codes.  *)
(***************************************************************************)
EXTENDS Integers, Sequences, FiniteSets, TLC

(***************************************************************************)
(* Bounds of the model.                                                    *)
(***************************************************************************)
\* number of identifiers v4() can issue in one behaviour
MaxUuids == 2
\* page sizes a client asks for are 1..MaxPageSize (besides absent, 0 and -1)
MaxPageSize == 2
\* invocations the runtime runs at the same time
MaxConcurrent == 2
\* items that fit in the 1 MB of data one scan call reads
MaxScanItems == 2

(***************************************************************************)
(* JavaScript values: a tagged record per type, so that values of          *)
(* different types are never compared field by field.                      *)
(***************************************************************************)
Undefined == [t |-> "undefined"]
NullV == [t |-> "null"]
Str(s) == [t |-> "string", s |-> s]
Num(n) == [t |-> "number", n |-> n]
Bool(b) == [t |-> "boolean", b |-> b]
Arr(a) == [t |-> "array", a |-> a]

IsAbsent(v) == v.t \in {"undefined", "null"}

(***************************************************************************)
(* Identifiers.  v4() issues identifiers from UuidPool; a client can       *)
(* address an identifier it was given, or one it made up (ClientIds).  A   *)
(* made-up identifier is never one v4() issues later: that is what a       *)
(* universally unique identifier means.  The identifiers have different    *)
(* lengths so that every base64 padding case of the cursor occurs.         *)
(***************************************************************************)
Uuid(n) == [i \in 1..(1 + (n % 3)) |-> 97 + n]
UuidPool == {Uuid(n) : n \in 1..MaxUuids}
\* "x"
ClientIds == {<<120>>}
AllIds == UuidPool \cup ClientIds

NoItem == [t |-> "none"]

(***************************************************************************)
(* Helpers on character sequences.                                         *)
(***************************************************************************)
IsPrefix(p, s) == Len(p) <= Len(s) /\ SubSeq(s, 1, Len(p)) = p

\* DynamoDB contains(attr, q) and String.prototype.includes: q is a substring of s
Contains(s, q) ==
    \E i \in 0..(Len(s) - Len(q)) : SubSeq(s, i + 1, i + Len(q)) = q

\* String.prototype.toLowerCase on the letters A-Z
RECURSIVE ToLowerCase(_)
ToLowerCase(s) ==
    IF Len(s) = 0 THEN <<>>
    ELSE <<IF Head(s) \in 65..90 THEN Head(s) + 32 ELSE Head(s)>> \o ToLowerCase(Tail(s))

\* decimal digits of a natural number, as Number.prototype.toString() gives them
RECURSIVE Digits(_)
Digits(n) == IF n < 10 THEN <<48 + n>> ELSE Digits(n \div 10) \o <<48 + (n % 10)>>

NumberToString(n) == IF n < 0 THEN <<45>> \o Digits(0 - n) ELSE Digits(n)

IsDigits(s) == Len(s) > 0 /\ \A i \in 1..Len(s) : s[i] \in 48..57

RECURSIVE DigitsValue(_)
DigitsValue(s) ==
    IF Len(s) = 0 THEN 0 ELSE 10 * DigitsValue(SubSeq(s, 1, Len(s) - 1)) + (s[Len(s)] - 48)

\* "true", "false", "http://", "https://"
S_true == <<116, 114, 117, 101>>
S_false == <<102, 97, 108, 115, 101>>
S_http == <<104, 116, 116, 112, 58, 47, 47>>
S_https == <<104, 116, 116, 112, 115, 58, 47, 47>>

(***************************************************************************)
(* The schema (yup).  validate collects every violation, in the order of   *)
(* the schema's fields (abortEarly: false).  A violation is the path, the  *)
(* array index (0 outside arrays) and the rule that failed; yup renders    *)
(* each as one message string of e.errors.                                 *)
(***************************************************************************)
Err(path, idx, rule) == [path |-> path, idx |-> idx, rule |-> rule]

\* yup's string cast: numbers and booleans are converted with toString()
CastString(v) ==
    CASE v.t = "string" -> v
      [] v.t = "number" -> Str(NumberToString(v.n))
      [] v.t = "boolean" -> Str(IF v.b THEN S_true ELSE S_false)
      [] OTHER -> v

\* yup's number cast: a string of digits (with an optional sign) is converted
CastNumber(v) ==
    CASE v.t = "string" /\ IsDigits(v.s) -> Num(DigitsValue(v.s))
      [] v.t = "string" /\ Len(v.s) > 1 /\ v.s[1] = 45 /\ IsDigits(Tail(v.s)) ->
            Num(0 - DigitsValue(Tail(v.s)))
      [] OTHER -> v

\* yup's boolean cast: "true"/"1" and "false"/"0" are converted
CastBool(v) ==
    CASE v.t = "string" /\ v.s \in {S_true, <<49>>} -> Bool(TRUE)
      [] v.t = "string" /\ v.s \in {S_false, <<48>>} -> Bool(FALSE)
      [] v.t = "number" /\ v.n \in {0, 1} -> Bool(v.n = 1)
      [] OTHER -> v

\* yup.string().url(): approximated by the scheme prefix and a non-empty rest
IsUrl(s) ==
    \/ IsPrefix(S_http, s) /\ Len(s) > Len(S_http)
    \/ IsPrefix(S_https, s) /\ Len(s) > Len(S_https)

\* /^(€|\$)$/
MatchesCurrency(s) == s \in {<<36>>, <<8364>>}

\* /^#/
MatchesHash(s) == Len(s) > 0 /\ s[1] = 35

\* yup.string().max(maxLen).required()
RequiredString(path, raw, maxLen) ==
    LET v == CastString(raw) IN
    CASE raw.t = "undefined" -> <<Err(path, 0, "required")>>
      [] v.t # "string" -> <<Err(path, 0, "typeError")>>
      [] Len(v.s) = 0 -> <<Err(path, 0, "required")>>
      [] Len(v.s) > maxLen -> <<Err(path, 0, "max")>>
      [] OTHER -> <<>>

\* yup.number().min(lo).max(hi), required or nullable
NumberRule(path, raw, lo, hi, required) ==
    LET v == CastNumber(raw) IN
    CASE raw.t = "undefined" -> IF required THEN <<Err(path, 0, "required")>> ELSE <<>>
      [] raw.t = "null" -> IF required THEN <<Err(path, 0, "typeError")>> ELSE <<>>
      [] v.t # "number" -> <<Err(path, 0, "typeError")>>
      [] OTHER -> (IF v.n < lo THEN <<Err(path, 0, "min")>> ELSE <<>>)
                  \o (IF v.n > hi THEN <<Err(path, 0, "max")>> ELSE <<>>)

\* yup.number().positive().integer().nullable(): the model's numbers are integers
PositiveIntegerRule(path, raw) ==
    LET v == CastNumber(raw) IN
    CASE IsAbsent(raw) -> <<>>
      [] v.t # "number" -> <<Err(path, 0, "typeError")>>
      [] v.n <= 0 -> <<Err(path, 0, "positive")>>
      [] OTHER -> <<>>

\* yup.bool(), required or nullable
BoolRule(path, raw, required) ==
    LET v == CastBool(raw) IN
    CASE raw.t = "undefined" -> IF required THEN <<Err(path, 0, "required")>> ELSE <<>>
      [] raw.t = "null" -> IF required THEN <<Err(path, 0, "typeError")>> ELSE <<>>
      [] v.t # "boolean" -> <<Err(path, 0, "typeError")>>
      [] OTHER -> <<>>

\* yup.string().url() applied to the element at index i of media
MediaElement(raw, i) ==
    LET v == CastString(raw) IN
    CASE raw.t = "undefined" -> <<>>
      [] v.t # "string" -> <<Err("media", i, "typeError")>>
      [] Len(v.s) > 0 /\ ~IsUrl(v.s) -> <<Err("media", i, "url")>>
      [] OTHER -> <<>>

\* yup.string().max(10).matches(/^#/) applied to the element at index i of colors
ColorElement(raw, i) ==
    LET v == CastString(raw) IN
    CASE raw.t = "undefined" -> <<>>
      [] v.t # "string" -> <<Err("colors", i, "typeError")>>
      [] OTHER -> (IF Len(v.s) > 10 THEN <<Err("colors", i, "max")>> ELSE <<>>)
                  \o (IF ~MatchesHash(v.s) THEN <<Err("colors", i, "matches")>> ELSE <<>>)

RECURSIVE ElementErrors(_, _, _)
\* the violations of the elements i..Len(a) of an array, in index order
ElementErrors(kind, a, i) ==
    IF i > Len(a) THEN <<>>
    ELSE (IF kind = "media" THEN MediaElement(a[i], i - 1) ELSE ColorElement(a[i], i - 1))
         \o ElementErrors(kind, a, i + 1)

\* yup.array().of(...).required()
RequiredArray(path, raw) ==
    CASE raw.t = "undefined" -> <<Err(path, 0, "required")>>
      [] raw.t # "array" -> <<Err(path, 0, "typeError")>>
      [] OTHER -> ElementErrors(path, raw.a, 1)

\* yup.string().matches(/^(€|\$)$/).required()
CurrencyRule(raw) ==
    LET v == CastString(raw) IN
    CASE raw.t = "undefined" -> <<Err("currency", 0, "required")>>
      [] v.t # "string" -> <<Err("currency", 0, "typeError")>>
      [] OTHER -> (IF ~MatchesCurrency(v.s) THEN <<Err("currency", 0, "matches")>> ELSE <<>>)
                  \o (IF Len(v.s) = 0 THEN <<Err("currency", 0, "required")>> ELSE <<>>)

\* schema.validate(reqBody, { abortEarly: false }): the ordered list of violations;
\* a body that is not an object (null) is one violation of the object itself
schema(reqBody) ==
    IF reqBody.t # "object" THEN <<Err("", 0, "typeError")>>
    ELSE LET o == reqBody.o IN
         RequiredString("name", o.name, 250)
         \o RequiredString("description", o.description, 1000)
         \o NumberRule("price", o.price, 1, 10000, TRUE)
         \o BoolRule("available", o.available, TRUE)
         \o RequiredArray("media", o.media)
         \o RequiredString("company", o.company, 100)
         \o CurrencyRule(o.currency)
         \o RequiredArray("colors", o.colors)
         \o PositiveIntegerRule("reviewsCount", o.reviewsCount)
         \o NumberRule("avgReviews", o.avgReviews, 1, 5, FALSE)
         \o BoolRule("featured", o.featured, FALSE)

\* yup.string().required()
PlainRequiredString(path, raw) ==
    LET v == CastString(raw) IN
    CASE raw.t = "undefined" -> <<Err(path, 0, "required")>>
      [] v.t # "string" -> <<Err(path, 0, "typeError")>>
      [] Len(v.s) = 0 -> <<Err(path, 0, "required")>>
      [] OTHER -> <<>>

\* yup.number().required()
PlainRequiredNumber(path, raw) ==
    LET v == CastNumber(raw) IN
    CASE raw.t = "undefined" -> <<Err(path, 0, "required")>>
      [] v.t # "number" -> <<Err(path, 0, "typeError")>>
      [] OTHER -> <<>>

\* yup.string().url().required() of the earlier schema
ImageUrlRule(raw) ==
    LET v == CastString(raw) IN
    CASE raw.t = "undefined" -> <<Err("imageUrl", 0, "required")>>
      [] v.t # "string" -> <<Err("imageUrl", 0, "typeError")>>
      [] Len(v.s) = 0 -> <<Err("imageUrl", 0, "required")>>
      [] ~IsUrl(v.s) -> <<Err("imageUrl", 0, "url")>>
      [] OTHER -> <<>>

\* the earlier schema: no bounds, and imageUrl in place of media
schema_part_000(reqBody) ==
    IF reqBody.t # "object" THEN <<Err("", 0, "typeError")>>
    ELSE LET o == reqBody.o IN
         PlainRequiredString("name", o.name)
         \o PlainRequiredString("description", o.description)
         \o PlainRequiredNumber("price", o.price)
         \o BoolRule("available", o.available, TRUE)
         \o ImageUrlRule(o.imageUrl)

(***************************************************************************)
(* The two variants of the handlers in the repository.                     *)
(***************************************************************************)
Variants == {"handlers", "part_000"}

validate(variant, reqBody) ==
    IF variant = "handlers" THEN schema(reqBody) ELSE schema_part_000(reqBody)

(***************************************************************************)
(* Errors and the error mapper.  What a handler hands back is either a     *)
(* returned response or an error thrown out of the handler.                *)
(***************************************************************************)
ValidationError(errors) == [type |-> "ValidationError", errors |-> errors]
SyntaxError == [type |-> "SyntaxError"]
HttpError(statusCode, body) == [type |-> "HttpError", statusCode |-> statusCode, message |-> body]
\* a failure of the store or of the payment API, or a TypeError
OtherError(what) == [type |-> "Error", what |-> what]
\* a string handed to handleError in place of an error object
StringError(text) == [type |-> "string", text |-> text]

Return(statusCode, body) == [kind |-> "return", statusCode |-> statusCode, body |-> body]
Throw(e) == [kind |-> "throw", error |-> e]

\* handlers.ts: every error becomes a response
handleError(e) ==
    CASE e.type = "ValidationError" -> Return(400, [error |-> e.errors])
      [] e.type = "SyntaxError" -> Return(400, [error |-> "invalid request body format"])
      [] e.type = "HttpError" ->
            Return(IF e.statusCode # 0 THEN e.statusCode ELSE 500, [error |-> e.message])
      [] OTHER -> Return(400, [error |-> e])

\* part_000: an error of no known class is thrown again
handleError_part_000(e) ==
    CASE e.type = "ValidationError" -> Return(400, [errors |-> e.errors])
      [] e.type = "SyntaxError" -> Return(400, [error |-> "invalid request body format"])
      [] e.type = "HttpError" ->
            Return(IF e.statusCode # 0 THEN e.statusCode ELSE 400, e.message)
      [] OTHER -> Throw(e)

handleErrorOf(variant, e) ==
    IF variant = "handlers" THEN handleError(e) ELSE handleError_part_000(e)

\* the body of a success response: { data: payload } in handlers.ts, the bare payload before
Payload(variant, payload) == IF variant = "handlers" THEN [data |-> payload] ELSE payload

(***************************************************************************)
(* The table ShoeProductsTable, keyed by the attribute shoeProductID.      *)
(***************************************************************************)
Obj(fields) == [t |-> "object", o |-> fields]

KeyOf(item) == item.o.shoeProductID.s

\* docClient.get
Get(st, id) == st[id]
\* docClient.put: the item replaces whatever is stored under its key attribute
Put(st, item) == [st EXCEPT ![KeyOf(item)] = item]
\* docClient.delete
Delete(st, id) == [st EXCEPT ![id] = NoItem]

PutCall(item) == [call |-> "put", key |-> KeyOf(item)]
GetCall(id) == [call |-> "get", key |-> id]
DeleteCall(id) == [call |-> "delete", key |-> id]

\* what a handler did: the table after it, the store calls it issued, the
\* identifiers it generated and what it handed back
Result(st, calls, uuids, outcome) ==
    [store |-> st, calls |-> calls, uuids |-> uuids, outcome |-> outcome]

\* { shoeProductID: id, ...reqBody }: a shoeProductID of the body wins
WithShoeProductID_BodyWins(reqBody, id) ==
    IF reqBody.o.shoeProductID.t = "undefined"
    THEN Obj([reqBody.o EXCEPT !.shoeProductID = Str(id)])
    ELSE reqBody

\* { ...reqBody, shoeProductID: id }: the later key wins
WithShoeProductID(reqBody, id) == Obj([reqBody.o EXCEPT !.shoeProductID = Str(id)])

(***************************************************************************)
(* The handlers.  body is the request body: malformed text, or the value   *)
(* JSON.parse gives.  fail is the index of the external call, among those  *)
(* of this request, that fails unexpectedly (0: none does).                *)
(***************************************************************************)
\* the record is stored under the identifier its body names, when it names one
createShoeProduct_KeepsBodyId(variant, st, body, uuid, fail) ==
    IF body.t = "malformed"
    THEN Result(st, <<>>, {}, handleErrorOf(variant, SyntaxError))
    ELSE LET errors == validate(variant, body) IN
         IF errors # <<>>
         THEN Result(st, <<>>, {}, handleErrorOf(variant, ValidationError(errors)))
         ELSE LET product == IF body.o.shoeProductID.t = "string"
                             THEN body ELSE WithShoeProductID(body, uuid) IN
              IF fail = 1
              THEN Result(st, <<PutCall(product)>>, {uuid},
                          handleErrorOf(variant, OtherError("store")))
              ELSE Result(Put(st, product), <<PutCall(product)>>, {uuid},
                          Return(201, Payload(variant, product)))

createShoeProduct(variant, st, body, uuid, fail) ==
    IF body.t = "malformed"
    THEN Result(st, <<>>, {}, handleErrorOf(variant, SyntaxError))
    ELSE LET errors == validate(variant, body) IN
         IF errors # <<>>
         THEN Result(st, <<>>, {}, handleErrorOf(variant, ValidationError(errors)))
         ELSE LET product == WithShoeProductID(body, uuid) IN
              IF fail = 1
              THEN Result(st, <<PutCall(product)>>, {uuid},
                          handleErrorOf(variant, OtherError("store")))
              ELSE Result(Put(st, product), <<PutCall(product)>>, {uuid},
                          Return(201, Payload(variant, product)))

\* the item, or else the response handleError makes of the 404 error: returned, not thrown
fetchShoeProductById(variant, st, id) ==
    LET output == Get(st, id) IN
    IF output = NoItem
    THEN handleErrorOf(variant, HttpError(404, [error |-> "not found"]))
    ELSE output

getShoeProduct(variant, st, id, fail) ==
    IF fail = 1
    THEN Result(st, <<GetCall(id)>>, {}, handleErrorOf(variant, OtherError("store")))
    ELSE LET product == fetchShoeProductById(variant, st, id) IN
         Result(st, <<GetCall(id)>>, {}, Return(200, Payload(variant, product)))

\* the record is put before the body is validated
updateShoeProduct_PutBeforeValidate(variant, st, id, body, fail) ==
    IF fail = 1
    THEN Result(st, <<GetCall(id)>>, {}, handleErrorOf(variant, OtherError("store")))
    ELSE IF body.t = "malformed"
    THEN Result(st, <<GetCall(id)>>, {}, handleErrorOf(variant, SyntaxError))
    ELSE IF body.t # "object"
    THEN Result(st, <<GetCall(id)>>, {},
                handleErrorOf(variant, ValidationError(validate(variant, body))))
    ELSE LET product == WithShoeProductID(body, id)
             errors == validate(variant, body)
         IN IF fail = 2
            THEN Result(st, <<GetCall(id), PutCall(product)>>, {},
                        handleErrorOf(variant, OtherError("store")))
            ELSE IF errors # <<>>
            THEN Result(Put(st, product), <<GetCall(id), PutCall(product)>>, {},
                        handleErrorOf(variant, ValidationError(errors)))
            ELSE Result(Put(st, product), <<GetCall(id), PutCall(product)>>, {},
                        Return(200, Payload(variant, product)))

\* the put is conditional on the record being there: check and put are one store call
updateShoeProduct_ChecksAtPut(variant, st, id, body, fail) ==
    IF fail = 1
    THEN Result(st, <<GetCall(id)>>, {}, handleErrorOf(variant, OtherError("store")))
    ELSE IF body.t = "malformed"
    THEN Result(st, <<GetCall(id)>>, {}, handleErrorOf(variant, SyntaxError))
    ELSE LET errors == validate(variant, body) IN
         IF errors # <<>>
         THEN Result(st, <<GetCall(id)>>, {}, handleErrorOf(variant, ValidationError(errors)))
         ELSE LET product == WithShoeProductID(body, id) IN
              IF fail = 2
              THEN Result(st, <<GetCall(id), PutCall(product)>>, {},
                          handleErrorOf(variant, OtherError("store")))
              ELSE IF Get(st, id) = NoItem
              THEN Result(st, <<GetCall(id), PutCall(product)>>, {},
                          handleErrorOf(variant, HttpError(404, [error |-> "not found"])))
              ELSE Result(Put(st, product), <<GetCall(id), PutCall(product)>>, {},
                          Return(200, Payload(variant, product)))

updateShoeProduct(variant, st, id, body, fail) ==
    IF fail = 1
    THEN Result(st, <<GetCall(id)>>, {}, handleErrorOf(variant, OtherError("store")))
    ELSE IF body.t = "malformed"
    THEN Result(st, <<GetCall(id)>>, {}, handleErrorOf(variant, SyntaxError))
    ELSE LET errors == validate(variant, body) IN
         IF errors # <<>>
         THEN Result(st, <<GetCall(id)>>, {}, handleErrorOf(variant, ValidationError(errors)))
         ELSE LET product == WithShoeProductID(body, id) IN
              IF fail = 2
              THEN Result(st, <<GetCall(id), PutCall(product)>>, {},
                          handleErrorOf(variant, OtherError("store")))
              ELSE Result(Put(st, product), <<GetCall(id), PutCall(product)>>, {},
                          Return(200, Payload(variant, product)))

deleteShoeProduct(variant, st, id, fail) ==
    IF fail = 1
    THEN Result(st, <<GetCall(id)>>, {}, handleErrorOf(variant, OtherError("store")))
    ELSE IF fail = 2
    THEN Result(st, <<GetCall(id), DeleteCall(id)>>, {},
                handleErrorOf(variant, OtherError("store")))
    ELSE Result(Delete(st, id), <<GetCall(id), DeleteCall(id)>>, {},
                Return(204, IF variant = "handlers" THEN NullV ELSE Str(<<>>)))

(***************************************************************************)
(* The pagination cursor: nextPageKey is the base64 text of the JSON text  *)
(* of the scan's LastEvaluatedKey, { shoeProductID: id }.                  *)
(***************************************************************************)
\* {"shoeProductID":"   and   "}
S_keyPrefix == <<123, 34, 115, 104, 111, 101, 80, 114, 111, 100, 117, 99, 116, 73, 68, 34, 58, 34>>
S_keySuffix == <<34, 125>>

RECURSIVE JsonEscape(_)
\* the characters of a JSON string literal: quote and backslash are escaped
JsonEscape(s) ==
    IF Len(s) = 0 THEN <<>>
    ELSE (IF Head(s) \in {34, 92} THEN <<92, Head(s)>> ELSE <<Head(s)>>) \o JsonEscape(Tail(s))

\* JSON.stringify(results.LastEvaluatedKey)
JsonStringifyKey(id) == S_keyPrefix \o JsonEscape(id) \o S_keySuffix

RECURSIVE JsonUnescape(_)
\* the string a JSON literal's characters stand for; <<-1>> marks a literal that is
\* not well formed (a bare quote, a dangling or unknown escape)
JsonUnescape(s) ==
    IF Len(s) = 0 THEN <<>>
    ELSE IF Head(s) = 34 THEN <<-1>>
    ELSE IF Head(s) = 92
         THEN IF Len(s) >= 2 /\ s[2] \in {34, 92}
              THEN <<s[2]>> \o JsonUnescape(SubSeq(s, 3, Len(s)))
              ELSE <<-1>>
    ELSE <<Head(s)>> \o JsonUnescape(Tail(s))

\* JSON.parse of a cursor text: the key it holds, or a SyntaxError.  A text that is
\* JSON but not a key object is rejected too (by the scan, not by the parser); both
\* reach handleError as an error
JsonParseKey(text) ==
    LET n == Len(text)
        inner == SubSeq(text, Len(S_keyPrefix) + 1, n - Len(S_keySuffix))
        id == JsonUnescape(inner)
    IN IF /\ n >= Len(S_keyPrefix) + Len(S_keySuffix)
          /\ IsPrefix(S_keyPrefix, text)
          /\ SubSeq(text, n - Len(S_keySuffix) + 1, n) = S_keySuffix
          /\ \A i \in 1..Len(id) : id[i] # -1
       THEN [ok |-> TRUE, id |-> id]
       ELSE [ok |-> FALSE]

\* the base64 alphabet: A-Z a-z 0-9 + /
Base64Char(v) ==
    CASE v < 26 -> 65 + v
      [] v >= 26 /\ v < 52 -> 97 + (v - 26)
      [] v >= 52 /\ v < 62 -> 48 + (v - 52)
      [] v = 62 -> 43
      [] OTHER -> 47

Base64Value(c) ==
    CASE c \in 65..90 -> c - 65
      [] c \in 97..122 -> c - 97 + 26
      [] c \in 48..57 -> c - 48 + 52
      [] c = 43 -> 62
      [] c = 47 -> 63
      [] OTHER -> -1

RECURSIVE Base64Encode(_)
\* Buffer.from(text).toString("base64"), for text of character codes below 128
Base64Encode(b) ==
    CASE Len(b) = 0 -> <<>>
      [] Len(b) = 1 ->
            LET n == b[1] * 65536 IN
            <<Base64Char(n \div 262144), Base64Char((n \div 4096) % 64), 61, 61>>
      [] Len(b) = 2 ->
            LET n == b[1] * 65536 + b[2] * 256 IN
            <<Base64Char(n \div 262144), Base64Char((n \div 4096) % 64),
              Base64Char((n \div 64) % 64), 61>>
      [] OTHER ->
            LET n == b[1] * 65536 + b[2] * 256 + b[3] IN
            <<Base64Char(n \div 262144), Base64Char((n \div 4096) % 64),
              Base64Char((n \div 64) % 64), Base64Char(n % 64)>>
            \o Base64Encode(SubSeq(b, 4, Len(b)))

RECURSIVE Base64Sextets(_)
\* the values of the characters of the alphabet up to the padding; others are skipped
Base64Sextets(c) ==
    IF Len(c) = 0 \/ Head(c) = 61 THEN <<>>
    ELSE (IF Base64Value(Head(c)) >= 0 THEN <<Base64Value(Head(c))>> ELSE <<>>)
         \o Base64Sextets(Tail(c))

RECURSIVE Base64Bytes(_)
Base64Bytes(v) ==
    CASE Len(v) < 2 -> <<>>
      [] Len(v) = 2 -> <<(v[1] * 4 + v[2] \div 16) % 256>>
      [] Len(v) = 3 -> <<(v[1] * 4 + v[2] \div 16) % 256, (v[2] * 16 + v[3] \div 4) % 256>>
      [] OTHER -> <<(v[1] * 4 + v[2] \div 16) % 256, (v[2] * 16 + v[3] \div 4) % 256,
                    (v[3] * 64 + v[4]) % 256>>
                  \o Base64Bytes(SubSeq(v, 5, Len(v)))

\* Buffer.from(nextPageKey, "base64").toString()
Base64Decode(c) == Base64Bytes(Base64Sextets(c))

\* the nextPageKey of a LastEvaluatedKey
EncodeCursor(id) == Base64Encode(JsonStringifyKey(id))

(***************************************************************************)
(* docClient.scan.  The table is read in the order of the key hashes,      *)
(* order: a fixed sequence of all identifiers.  Limit bounds the items     *)
(* read, before the filter is applied, and so does the size of the data    *)
(* one call reads; LastEvaluatedKey is the key of the last item read when  *)
(* the scan stopped at either bound.                                       *)
(***************************************************************************)
NoKey == <<-1>>

\* the position of a key in the scan order (0: before the first)
PositionOf(order, key) ==
    IF \E i \in 1..Len(order) : order[i] = key
    THEN CHOOSE i \in 1..Len(order) : order[i] = key
    ELSE 0

RECURSIVE SelectSeq2(_, _, _)
\* the elements of s, in order, whose flag in keep is set
SelectSeq2(s, keep, i) ==
    IF i > Len(s) THEN <<>>
    ELSE (IF keep[i] THEN <<s[i]>> ELSE <<>>) \o SelectSeq2(s, keep, i + 1)

\* the items stored after the key startKey, in scan order
ItemsAfter(st, order, startKey) ==
    LET from == PositionOf(order, startKey)
        ids == SubSeq(order, from + 1, Len(order))
    IN SelectSeq2([i \in 1..Len(ids) |-> st[ids[i]]],
                  [i \in 1..Len(ids) |-> st[ids[i]] # NoItem], 1)

\* contains(attr, :query) on an attribute of an item
AttrContains(attr, q) == attr.t = "string" /\ Contains(attr.s, q)

\* the filter compares without regard to case
FilterExpression_IgnoresCase(item, q) ==
    \/ item.o.name.t = "string" /\ Contains(ToLowerCase(item.o.name.s), ToLowerCase(q))
    \/ item.o.description.t = "string"
          /\ Contains(ToLowerCase(item.o.description.s), ToLowerCase(q))

\* contains(#attrName1, :query) OR contains(#attrName2, :query)
FilterExpression(item, q) == AttrContains(item.o.name, q) \/ AttrContains(item.o.description, q)

\* params: filter (a query string, or NoKey for none), Limit (0 for none) and
\* ExclusiveStartKey (NoKey for none)
Scan(st, order, filter, limit, startKey) ==
    LET rest == ItemsAfter(st, order, startKey)
        most == IF limit = 0 \/ MaxScanItems < limit THEN MaxScanItems ELSE limit
        read == IF Len(rest) <= most THEN rest ELSE SubSeq(rest, 1, most)
        items == IF filter = NoKey THEN read
                 ELSE SelectSeq2(read, [i \in 1..Len(read) |-> FilterExpression(read[i], filter)], 1)
    IN [Items |-> items,
        Count |-> Len(items),
        LastEvaluatedKey |->
            IF (limit # 0 /\ Len(rest) >= limit) \/ Len(rest) > MaxScanItems
            THEN KeyOf(read[Len(read)]) ELSE NoKey]

ScanCall(limit, startKey) == [call |-> "scan", limit |-> limit, key |-> startKey]

(***************************************************************************)
(* listShoeProduct.                                                        *)
(***************************************************************************)
\* Number(v) of a query-string parameter; NaN stands for itself
NaN == [t |-> "NaN"]
Number(v) ==
    CASE v.t = "number" -> v
      [] v.t = "string" /\ Len(v.s) = 0 -> Num(0)
      [] v.t = "string" /\ CastNumber(v).t = "number" -> CastNumber(v)
      [] v.t = "null" -> Num(0)
      [] v.t = "boolean" -> Num(IF v.b THEN 1 ELSE 0)
      [] OTHER -> NaN

\* Number(v) || d
NumberOr(v, d) == IF Number(v).t = "number" /\ Number(v).n # 0 THEN Number(v).n ELSE d

\* a query-string parameter is truthy when it is a non-empty string
Truthy(v) == v.t = "string" /\ Len(v.s) > 0

S_price == <<112, 114, 105, 99, 101>>
S_desc == <<100, 101, 115, 99>>

RECURSIVE LocaleCompare(_, _)
\* a.localeCompare(b): -1, 0 or 1; on the lower-case letters of the identifiers the
\* collation order is the alphabetical one
LocaleCompare(a, b) ==
    CASE Len(a) = 0 /\ Len(b) = 0 -> 0
      [] Len(a) = 0 /\ Len(b) > 0 -> -1
      [] Len(a) > 0 /\ Len(b) = 0 -> 1
      [] OTHER -> IF Head(a) < Head(b) THEN -1
                  ELSE IF Head(a) > Head(b) THEN 1
                  ELSE LocaleCompare(Tail(a), Tail(b))

\* direction * ((Number(a.price) || 0) - (Number(b.price) || 0))
ComparePrice(a, b, direction) ==
    direction * (NumberOr(a.o.price, 0) - NumberOr(b.o.price, 0))

\* (a.shoeProductID || "").localeCompare(b.shoeProductID || "")
CompareId(a, b) == LocaleCompare(KeyOf(a), KeyOf(b))

Compare(a, b, byPrice, direction) ==
    IF byPrice THEN ComparePrice(a, b, direction) ELSE CompareId(a, b)

RECURSIVE Insert(_, _, _, _)
\* x placed after the last element it does not come before (the sort is stable)
Insert(sorted, x, byPrice, direction) ==
    IF Len(sorted) = 0 THEN <<x>>
    ELSE IF Compare(sorted[Len(sorted)], x, byPrice, direction) <= 0
         THEN Append(sorted, x)
         ELSE Append(Insert(SubSeq(sorted, 1, Len(sorted) - 1), x, byPrice, direction),
                     sorted[Len(sorted)])

RECURSIVE SortItems(_, _, _)
\* Array.prototype.sort with the comparator of the handler
SortItems(items, byPrice, direction) ==
    IF Len(items) = 0 THEN <<>>
    ELSE Insert(SortItems(SubSeq(items, 1, Len(items) - 1), byPrice, direction),
                items[Len(items)], byPrice, direction)

defaultPageSize == 10

\* the cursor is dropped when the page holds no item
listShoeProduct_EndsOnEmptyPage(st, order, q, fail) ==
    LET filter == IF Truthy(q.query) THEN q.query.s ELSE NoKey
        totalCount == Scan(st, order, filter, 0, NoKey)
        parsedPageSize == NumberOr(q.pageSize, defaultPageSize)
        cursor == IF Truthy(q.nextPageKey)
                  THEN JsonParseKey(Base64Decode(q.nextPageKey.s))
                  ELSE [ok |-> TRUE, id |-> NoKey]
        first == ScanCall(0, NoKey)
    IN IF fail = 1
       THEN Result(st, <<first>>, {}, handleError(OtherError("store")))
       ELSE IF ~cursor.ok
       THEN Result(st, <<first>>, {}, handleError(SyntaxError))
       ELSE LET second == ScanCall(parsedPageSize, cursor.id) IN
            \* the store rejects a Limit below 1
            IF fail = 2 \/ parsedPageSize < 1
            THEN Result(st, <<first, second>>, {}, handleError(OtherError("store")))
            ELSE LET results == Scan(st, order, filter, parsedPageSize, cursor.id)
                     nextLastEvaluatedKey ==
                         IF results.LastEvaluatedKey # NoKey /\ Len(results.Items) > 0
                         THEN Str(EncodeCursor(results.LastEvaluatedKey))
                         ELSE NullV
                     byPrice == Truthy(q.sortBy) /\ ToLowerCase(q.sortBy.s) = S_price
                     direction == IF Truthy(q.sortOrder) /\ ToLowerCase(q.sortOrder.s) = S_desc
                                  THEN -1 ELSE 1
                     data == SortItems(results.Items, byPrice, direction)
                 IN Result(st, <<first, second>>, {},
                           Return(200, [data |-> data,
                                        pagination |-> [pageSize |-> parsedPageSize,
                                                        totalCount |-> totalCount.Count,
                                                        nextPageKey |-> nextLastEvaluatedKey]]))

\* q holds the query-string parameters query, pageSize, nextPageKey, sortBy, sortOrder,
\* each a string or undefined
listShoeProduct(st, order, q, fail) ==
    LET filter == IF Truthy(q.query) THEN q.query.s ELSE NoKey
        totalCount == Scan(st, order, filter, 0, NoKey)
        parsedPageSize == NumberOr(q.pageSize, defaultPageSize)
        cursor == IF Truthy(q.nextPageKey)
                  THEN JsonParseKey(Base64Decode(q.nextPageKey.s))
                  ELSE [ok |-> TRUE, id |-> NoKey]
        first == ScanCall(0, NoKey)
    IN IF fail = 1
       THEN Result(st, <<first>>, {}, handleError(OtherError("store")))
       ELSE IF ~cursor.ok
       THEN Result(st, <<first>>, {}, handleError(SyntaxError))
       ELSE LET second == ScanCall(parsedPageSize, cursor.id) IN
            \* the store rejects a Limit below 1
            IF fail = 2 \/ parsedPageSize < 1
            THEN Result(st, <<first, second>>, {}, handleError(OtherError("store")))
            ELSE LET results == Scan(st, order, filter, parsedPageSize, cursor.id)
                     nextLastEvaluatedKey ==
                         IF results.LastEvaluatedKey # NoKey
                         THEN Str(EncodeCursor(results.LastEvaluatedKey))
                         ELSE NullV
                     byPrice == Truthy(q.sortBy) /\ ToLowerCase(q.sortBy.s) = S_price
                     direction == IF Truthy(q.sortOrder) /\ ToLowerCase(q.sortOrder.s) = S_desc
                                  THEN -1 ELSE 1
                     data == SortItems(results.Items, byPrice, direction)
                 IN Result(st, <<first, second>>, {},
                           Return(200, [data |-> data,
                                        pagination |-> [pageSize |-> parsedPageSize,
                                                        totalCount |-> totalCount.Count,
                                                        nextPageKey |-> nextLastEvaluatedKey]]))

(***************************************************************************)
(* createPaymentIntent.  The payment API creates an intent for a positive  *)
(* integer amount and rejects any other amount.                            *)
(***************************************************************************)
\* !reqBody.amount
Falsy(v) ==
    \/ v.t \in {"undefined", "null", "NaN"}
    \/ v.t = "number" /\ v.n = 0
    \/ v.t = "string" /\ Len(v.s) = 0
    \/ v.t = "boolean" /\ ~v.b

\* Number(reqBody.amount) * 100
MinorUnits(v) == IF Number(v).t = "number" THEN Num(Number(v).n * 100) ELSE NaN

PaymentCall(amount, created) ==
    [call |-> "paymentIntents.create", currency |-> "USD", amount |-> amount, created |-> created]

\* stripe.paymentIntents.create accepts the amount
StripeAccepts(amount) == amount.t = "number" /\ amount.n >= 1

createPaymentIntent(st, body, fail) ==
    IF body.t = "malformed"
    THEN Result(st, <<>>, {}, handleError(SyntaxError))
    ELSE IF body.t # "object"
    THEN Result(st, <<>>, {}, handleError(OtherError("TypeError")))
    ELSE IF Falsy(body.o.amount)
    THEN Result(st, <<>>, {},
                handleError(StringError("Amount is required and should be greater than 0.")))
    ELSE LET amount == MinorUnits(body.o.amount) IN
         IF fail = 1 \/ ~StripeAccepts(amount)
         THEN Result(st, <<PaymentCall(amount, FALSE)>>, {}, handleError(OtherError("stripe")))
         ELSE Result(st, <<PaymentCall(amount, TRUE)>>, {},
                     Return(200, [data |-> [clientSecret |-> "client_secret"]]))

(***************************************************************************)
(* Requests.                                                               *)
(***************************************************************************)
\* "Air", "Run", "Zoom", "air", "N", "$", "#f", "https://x", "A"
S_Air == <<65, 105, 114>>
S_Run == <<82, 117, 110>>
S_Zoom == <<90, 111, 111, 109>>
S_air == <<97, 105, 114>>
S_N == <<78>>
S_dollar == <<36>>
S_pound == <<163>>
S_colour == <<35, 102>>
S_url == S_https \o <<120>>
S_A == <<65>>

\* a body that satisfies both schemas
Body1 ==
    Obj([name |-> Str(S_Air), description |-> Str(S_Run), price |-> Num(120),
         available |-> Bool(TRUE), media |-> Arr(<<Str(S_url)>>), company |-> Str(S_N),
         currency |-> Str(S_dollar), colors |-> Arr(<<Str(S_colour)>>),
         reviewsCount |-> Undefined, avgReviews |-> NullV, featured |-> Undefined,
         imageUrl |-> Str(S_url), shoeProductID |-> Undefined])

Body2 ==
    Obj([Body1.o EXCEPT !.name = Str(S_Zoom), !.description = Str(S_air), !.price = Num(80)])

\* a body that names an identifier of its own
BodyWithId(id) == Obj([Body1.o EXCEPT !.shoeProductID = Str(id)])

\* price is missing
BodyNoPrice == Obj([Body1.o EXCEPT !.price = Undefined])

\* several violations: an empty name, a price below the minimum, a currency that is
\* not allowed, a colour without "#"
BodyManyErrors ==
    Obj([Body1.o EXCEPT !.name = Str(<<>>), !.price = Num(0), !.currency = Str(S_pound),
                        !.colors = Arr(<<Str(S_colour), Str(S_N)>>),
                        !.imageUrl = Undefined])

Malformed == [t |-> "malformed"]

\* a client can name, in a body, the identifiers in ids
ValidBodies(ids) == {Body1, Body2} \cup {BodyWithId(id) : id \in ids}
InvalidBodies == {BodyNoPrice, BodyManyErrors, NullV, Malformed}
Bodies(ids) == ValidBodies(ids) \cup InvalidBodies

\* bodies of createPaymentIntent
AmountBody(v) == Obj([amount |-> v])
Amounts == {Undefined, NullV, Num(0), Num(5), Num(-5), Str(<<120>>)}
PaymentBodies == {AmountBody(v) : v \in Amounts} \cup {NullV, Malformed}

(***************************************************************************)
(* State.  Requests are served one at a time: a handler runs when no       *)
(* invocation is pending, and the runtime then delivers what it handed     *)
(* back.                                                                   *)
(***************************************************************************)
VARIABLES
    store,      \* the table: identifier -> item, or NoItem
    scanOrder,  \* the order in which a scan reads the keys
    issued,     \* the identifiers v4() has generated
    deleted,    \* the identifiers deleted and not written since
    last,       \* the pending invocation: the request, its external calls, what it handed back
    chain,      \* the cursor chain a client is following
    inflight    \* the concurrent invocations, each between two of its store calls

vars == <<store, scanOrder, issued, deleted, last, chain, inflight>>

NoRequest == [req |-> [op |-> "none"], existed |-> FALSE, before |-> 0, calls |-> <<>>,
              outcome |-> [kind |-> "none"]]

IdleChain == [state |-> "idle"]

\* the invocations the runtime runs at the same time
Invocations == 1..MaxConcurrent

NoInvocation == [state |-> "idle"]

\* the number of items in a table
Size(st) == Cardinality({id \in AllIds : st[id] # NoItem})

RECURSIVE Ascending(_)
\* the identifiers of S in alphabetical order
Ascending(S) ==
    IF S = {} THEN <<>>
    ELSE LET least == CHOOSE x \in S : \A y \in S : LocaleCompare(x, y) <= 0
         IN <<least>> \o Ascending(S \ {least})

Reverse(s) == [i \in 1..Len(s) |-> s[Len(s) + 1 - i]]

\* s with its first element moved to the end
Rotate(s) == IF Len(s) = 0 THEN s ELSE Tail(s) \o <<Head(s)>>

\* the orders of the key hashes the model takes
ScanOrders == {Reverse(Ascending(AllIds)), Rotate(Ascending(AllIds))}

InitTable ==
    /\ store = [id \in AllIds |-> NoItem]
    /\ issued = {}
    /\ deleted = {}
    /\ last = NoRequest
    /\ chain = IdleChain
    /\ inflight = [n \in Invocations |-> NoInvocation]

\* the handlers other than listShoeProduct do not read the scan order
Init == InitTable /\ scanOrder = Rotate(Ascending(AllIds))

InitList == InitTable /\ scanOrder \in ScanOrders

Idle == last = NoRequest

\* a write ends the chain a client was following
ChainAfter(r) == IF r.store # store THEN IdleChain ELSE chain

\* the request ended in an error
Failed(r) == r.outcome.kind = "throw" \/ r.outcome.statusCode >= 400

\* the keys of the calls of one kind that did not fail (a call that fails is the
\* last call of its request)
Done(r, kind) ==
    {r.calls[i].key : i \in {j \in 1..Len(r.calls) :
        r.calls[j].call = kind /\ ~(j = Len(r.calls) /\ Failed(r))}}

DeletedAfter(r) == (deleted \ Done(r, "put")) \cup Done(r, "delete")

Record(req, id, r) ==
    [req |-> req, existed |-> (id # NoKey /\ store[id] # NoItem), before |-> Size(store),
     calls |-> r.calls, outcome |-> r.outcome]

\* the identifiers a client can put in a path or a body: those it was given, and
\* made-up ones
KnownIds == issued \cup ClientIds

\* the external calls of a request, numbered, when none fails
Calls(r) == 1..Len(r.calls)

CreateShoeProduct(variant, body, fail) ==
    /\ Idle
    /\ \E uuid \in (IF body.t # "malformed" /\ validate(variant, body) = <<>>
                    THEN UuidPool \ issued ELSE {NoKey}) :
        LET r == createShoeProduct(variant, store, body, uuid, fail) IN
        /\ fail = 0 \/ fail \in Calls(createShoeProduct(variant, store, body, uuid, 0))
        /\ store' = r.store
        /\ issued' = issued \cup r.uuids
        /\ deleted' = DeletedAfter(r)
        /\ last' = Record([op |-> "createShoeProduct", variant |-> variant, body |-> body,
                           fail |-> fail], NoKey, r)
        /\ chain' = ChainAfter(r)
        /\ UNCHANGED <<scanOrder, inflight>>

GetShoeProduct(variant, id, fail) ==
    LET r == getShoeProduct(variant, store, id, fail) IN
    /\ Idle
    /\ fail = 0 \/ fail \in Calls(getShoeProduct(variant, store, id, 0))
    /\ last' = Record([op |-> "getShoeProduct", variant |-> variant, id |-> id,
                       fail |-> fail], id, r)
    /\ UNCHANGED <<store, scanOrder, issued, deleted, chain, inflight>>

UpdateShoeProduct(variant, id, body, fail) ==
    LET r == updateShoeProduct(variant, store, id, body, fail) IN
    /\ Idle
    /\ fail = 0 \/ fail \in Calls(updateShoeProduct(variant, store, id, body, 0))
    /\ store' = r.store
    /\ deleted' = DeletedAfter(r)
    /\ last' = Record([op |-> "updateShoeProduct", variant |-> variant, id |-> id,
                       body |-> body, fail |-> fail], id, r)
    /\ chain' = ChainAfter(r)
    /\ UNCHANGED <<scanOrder, issued, inflight>>

DeleteShoeProduct(variant, id, fail) ==
    LET r == deleteShoeProduct(variant, store, id, fail) IN
    /\ Idle
    /\ fail = 0 \/ fail \in Calls(deleteShoeProduct(variant, store, id, 0))
    /\ store' = r.store
    /\ deleted' = DeletedAfter(r)
    /\ last' = Record([op |-> "deleteShoeProduct", variant |-> variant, id |-> id,
                       fail |-> fail], id, r)
    /\ chain' = ChainAfter(r)
    /\ UNCHANGED <<scanOrder, issued, inflight>>

CreatePaymentIntent(body, fail) ==
    LET r == createPaymentIntent(store, body, fail) IN
    /\ Idle
    /\ fail = 0 \/ fail \in Calls(createPaymentIntent(store, body, 0))
    /\ last' = Record([op |-> "createPaymentIntent", body |-> body, fail |-> fail], NoKey, r)
    /\ UNCHANGED <<store, scanOrder, issued, deleted, chain, inflight>>

\* query-string parameters of listShoeProduct
Params(query, pageSize, nextPageKey, sort) ==
    [query |-> query, pageSize |-> pageSize, nextPageKey |-> nextPageKey,
     sortBy |-> sort[1], sortOrder |-> sort[2]]

Queries == {Undefined, Str(<<>>), Str(S_A)}
\* absent, "0", "-1", "1"
PageSizes == {Undefined, Str(NumberToString(0)), Str(NumberToString(-1)), Str(NumberToString(1))}
\* the page sizes of the chains a client follows
ChainPageSizes == {Undefined} \cup {Str(NumberToString(n)) : n \in 1..MaxPageSize}
\* "shoeProductID"
S_shoeProductID == <<115, 104, 111, 101, 80, 114, 111, 100, 117, 99, 116, 73, 68>>
\* none, sortBy=Price, sortBy=price&sortOrder=DESC, sortBy=shoeProductID&sortOrder=desc
Sorts == {<<Undefined, Undefined>>, <<Str(<<80, 114, 105, 99, 101>>), Undefined>>,
          <<Str(S_price), Str(<<68, 69, 83, 67>>)>>,
          <<Str(S_shoeProductID), Str(S_desc)>>}
\* cursors a client can send: none, an empty one, the cursor of any key, and text
\* that is no cursor
Cursors == {Undefined, Str(<<>>), Str(<<33, 33>>)} \cup {Str(EncodeCursor(id)) : id \in AllIds}

\* the identifiers of a page, counted
CountIds(data) == [id \in AllIds |-> Cardinality({i \in 1..Len(data) : KeyOf(data[i]) = id})]

\* a request with the cursor of the chain's last response, the same query and the
\* same pageSize continues the chain
Continues(q) ==
    /\ chain.state = "open"
    /\ q.nextPageKey = chain.next
    /\ q.query = chain.query
    /\ q.pageSize = chain.pageSize

\* the chain after a response; a request without cursor starts a chain
ChainNext(q, outcome) ==
    LET starts == ~Truthy(q.nextPageKey)
        ok == outcome.kind = "return" /\ outcome.statusCode = 200
        next == outcome.body.pagination.nextPageKey
        page == CountIds(outcome.body.data)
    IN CASE ~(starts \/ Continues(q)) -> chain
         [] ~ok -> IdleChain
         [] OTHER ->
              [state |-> IF next = NullV THEN "done" ELSE "open",
               query |-> q.query, pageSize |-> q.pageSize, next |-> next,
               pages |-> IF starts THEN 1 ELSE chain.pages + 1,
               seen |-> IF starts THEN page
                        ELSE [id \in AllIds |-> chain.seen[id] + page[id]]]

\* follow: the client follows the cursor chain of its requests
ListShoeProduct(q, fail, follow) ==
    LET r == listShoeProduct(store, scanOrder, q, fail) IN
    /\ Idle
    /\ fail = 0 \/ fail \in Calls(listShoeProduct(store, scanOrder, q, 0))
    /\ last' = Record([op |-> "listShoeProduct", q |-> q, fail |-> fail], NoKey, r)
    /\ chain' = IF follow THEN ChainNext(q, r.outcome) ELSE chain
    /\ UNCHANGED <<store, scanOrder, issued, deleted, inflight>>

\* the runtime delivers what the handler handed back, and the invocation ends
Respond ==
    /\ ~Idle
    /\ last' = NoRequest
    /\ UNCHANGED <<store, scanOrder, issued, deleted, chain, inflight>>

(***************************************************************************)
(* Spec: every handler under every request, with unexpected failures of    *)
(* the external calls.                                                     *)
(***************************************************************************)
Create == \E v \in Variants, b \in Bodies(KnownIds), f \in 0..1 : CreateShoeProduct(v, b, f)
GetOne == \E v \in Variants, id \in KnownIds, f \in 0..1 : GetShoeProduct(v, id, f)
Update ==
    \E v \in Variants, id \in KnownIds, b \in Bodies(KnownIds), f \in 0..2 :
        UpdateShoeProduct(v, id, b, f)
DeleteOne == \E v \in Variants, id \in KnownIds, f \in 0..2 : DeleteShoeProduct(v, id, f)
\* any cursor, the client's own included; the chains are followed in SpecList
List ==
    \E size \in PageSizes, cursor \in Cursors, f \in 0..2 :
        ListShoeProduct(Params(Undefined, size, cursor, <<Undefined, Undefined>>), f, FALSE)
Pay == \E b \in PaymentBodies, f \in 0..1 : CreatePaymentIntent(b, f)

Next == Create \/ GetOne \/ Update \/ DeleteOne \/ List \/ Pay \/ Respond

Spec == Init /\ [][Next]_vars

(***************************************************************************)
(* SpecList: a client following cursor chains over a table that valid      *)
(* requests fill.                                                          *)
(***************************************************************************)
CreateValid == \E b \in {Body1, Body2} : CreateShoeProduct("handlers", b, 0)
UpdateValid == \E id \in KnownIds, b \in {Body1, Body2} : UpdateShoeProduct("handlers", id, b, 0)
ListStart ==
    \E query \in Queries, size \in ChainPageSizes, sort \in Sorts :
        ListShoeProduct(Params(query, size, Undefined, sort), 0, TRUE)
ListNextPage ==
    /\ chain.state = "open"
    /\ \E sort \in Sorts :
        ListShoeProduct(Params(chain.query, chain.pageSize, chain.next, sort), 0, TRUE)

NextList == CreateValid \/ UpdateValid \/ ListStart \/ ListNextPage \/ Respond

SpecList == InitList /\ [][NextList]_vars

(***************************************************************************)
(* SpecRace: concurrent invocations of updateShoeProduct and               *)
(* deleteShoeProduct.  A handler runs up to its first await of a store     *)
(* call in one step and from there to its return in another; the steps of  *)
(* different invocations interleave.  Parsing and validation touch nothing *)
(* shared and go with the second step.                                     *)
(***************************************************************************)
\* the handlers' steps leave the sequential bookkeeping alone
RaceUnchanged == UNCHANGED <<scanOrder, issued, last, chain>>

\* await fetchShoeProductById(id): the get is answered from the table as it is now
UpdateCheck(n, id, body) ==
    /\ inflight[n] = NoInvocation
    /\ inflight' = [inflight EXCEPT ![n] =
           [state |-> "checked", op |-> "updateShoeProduct", id |-> id, body |-> body,
            fetched |-> fetchShoeProductById("handlers", store, id),
            overtaken |-> FALSE]]
    /\ UNCHANGED <<store, deleted>>
    /\ RaceUnchanged

\* the rest of updateShoeProduct: parse, validate, put, return; against the table
\* as it is now
UpdateWrite(n) ==
    /\ inflight[n].state = "checked"
    /\ inflight[n].op = "updateShoeProduct"
    /\ LET r == updateShoeProduct("handlers", store, inflight[n].id, inflight[n].body, 0) IN
       /\ store' = r.store
       /\ deleted' = DeletedAfter(r)
       /\ inflight' = [inflight EXCEPT ![n] =
              [state |-> "done", op |-> "updateShoeProduct", id |-> inflight[n].id,
               body |-> inflight[n].body, fetched |-> inflight[n].fetched,
               overtaken |-> inflight[n].overtaken, outcome |-> r.outcome]]
    /\ RaceUnchanged

\* await fetchShoeProductById(id) of deleteShoeProduct
DeleteCheck(n, id) ==
    /\ inflight[n] = NoInvocation
    /\ inflight' = [inflight EXCEPT ![n] =
           [state |-> "checked", op |-> "deleteShoeProduct", id |-> id,
            fetched |-> fetchShoeProductById("handlers", store, id)]]
    /\ UNCHANGED <<store, deleted>>
    /\ RaceUnchanged

\* the invocations of updateShoeProduct on id that have checked and not yet put
BetweenCheckAndPut(id) ==
    {m \in Invocations :
        /\ inflight[m].state = "checked"
        /\ inflight[m].op = "updateShoeProduct"
        /\ inflight[m].id = id}

\* the rest of deleteShoeProduct: delete, return 204.  overtaken notes, in the
\* updates it overtakes, that a delete which removed the record has reported success
DeleteWrite(n) ==
    /\ inflight[n].state = "checked"
    /\ inflight[n].op = "deleteShoeProduct"
    /\ LET id == inflight[n].id
           r == deleteShoeProduct("handlers", store, id, 0)
       IN /\ store' = r.store
          /\ deleted' = DeletedAfter(r)
          /\ inflight' =
                [m \in Invocations |->
                    IF m = n
                    THEN [state |-> "done", op |-> "deleteShoeProduct", id |-> id,
                          fetched |-> inflight[n].fetched, outcome |-> r.outcome]
                    ELSE IF m \in BetweenCheckAndPut(id) /\ store[id] # NoItem
                                /\ r.outcome.statusCode = 204
                         THEN [inflight[m] EXCEPT !.overtaken = TRUE]
                         ELSE inflight[m]]
    /\ RaceUnchanged

\* the runtime delivers the response, and the invocation ends
Deliver(n) ==
    /\ inflight[n].state = "done"
    /\ inflight' = [inflight EXCEPT ![n] = NoInvocation]
    /\ UNCHANGED <<store, deleted>>
    /\ RaceUnchanged

RaceBodies == {Body1, BodyNoPrice}

NextRace ==
    \/ \E n \in Invocations, id \in KnownIds, b \in RaceBodies : UpdateCheck(n, id, b)
    \/ \E n \in Invocations : UpdateWrite(n)
    \/ \E n \in Invocations, id \in KnownIds : DeleteCheck(n, id)
    \/ \E n \in Invocations : DeleteWrite(n)
    \/ \E n \in Invocations : Deliver(n)

\* the table after one createShoeProduct has stored a record
InitRace ==
    LET uuid == CHOOSE u \in UuidPool : TRUE
        r == createShoeProduct("handlers", [id \in AllIds |-> NoItem], Body2, uuid, 0)
    IN /\ store = r.store
       /\ issued = r.uuids
       /\ deleted = {}
       /\ last = NoRequest
       /\ chain = IdleChain
       /\ inflight = [n \in Invocations |-> NoInvocation]
       /\ scanOrder = Rotate(Ascending(AllIds))

SpecRace == InitRace /\ [][NextRace]_vars

(***************************************************************************)
(* Properties.                                                             *)
(***************************************************************************)
Op(name) == last.req.op = name
Returned(statusCode) == last.outcome.kind = "return" /\ last.outcome.statusCode = statusCode
Issued(kind) == \E i \in 1..Len(last.calls) : last.calls[i].call = kind

\* C1: updateShoeProduct on an identifier that has no record leaves the table as it
\* was and returns 404; it creates no record under the identifier.
C1_UpdateMissingIsNotFound ==
    (Op("updateShoeProduct") /\ last.req.fail = 0 /\ ~last.existed)
        => /\ Returned(404)
           /\ store[last.req.id] = NoItem
           /\ Size(store) = last.before

\* C2: once deleteShoeProduct(id) has completed, getShoeProduct(id) returns 404 as
\* long as no create or update has written the identifier.
C2_GetAfterDeleteIsNotFound ==
    (Op("getShoeProduct") /\ last.req.fail = 0 /\ last.req.id \in deleted) => Returned(404)

\* C3: getShoeProduct and deleteShoeProduct on an identifier that has no record return
\* 404, and deleteShoeProduct issues no delete call then.
C3_MissingIsNotFound ==
    ((Op("getShoeProduct") \/ Op("deleteShoeProduct")) /\ last.req.fail = 0 /\ ~last.existed)
        => Returned(404) /\ ~Issued("delete")

\* the list of violations a 400 response carries
ViolationsOf(outcome, variant) ==
    IF variant = "handlers" THEN outcome.body.error ELSE outcome.body.errors

C4_Violating ==
    /\ Op("createShoeProduct") \/ Op("updateShoeProduct")
    /\ last.req.fail = 0
    /\ last.req.body.t # "malformed"
    /\ validate(last.req.variant, last.req.body) # <<>>

C4_Aborted ==
    /\ Returned(400)
    /\ ViolationsOf(last.outcome, last.req.variant) = validate(last.req.variant, last.req.body)
    /\ ~Issued("put")

\* C4: a create or update whose body violates the schema returns 400 with the list of
\* violations, issues no put, and leaves the table as it was.
C4_ValidationAborts == [][C4_Violating' => (C4_Aborted' /\ store' = store)]_vars

C4_Witness ==
    /\ C4_Violating /\ C4_Aborted
    /\ Op("updateShoeProduct") /\ last.existed
    /\ Len(validate(last.req.variant, last.req.body)) >= 2

C5_Created == Op("createShoeProduct") /\ Returned(201)

\* C5: a successful create stores its record under an identifier that was never issued
\* before and holds no record; every other record is as it was and the table has one
\* record more.
C5_FreshIdentifier ==
    [][C5_Created' =>
        \E id \in AllIds \ issued :
            /\ id \in issued'
            /\ store[id] = NoItem
            /\ store'[id] = Obj([last'.req.body.o EXCEPT !.shoeProductID = Str(id)])
            /\ \A other \in AllIds \ {id} : store'[other] = store[other]
            /\ Size(store') = Size(store) + 1]_vars

C5_Witness == C5_Created /\ last.before >= 1 /\ Size(store) = last.before + 1

\* the record matches the query of a list request
Matches(item, query) ==
    \/ ~Truthy(query)
    \/ item.o.name.t = "string" /\ Contains(item.o.name.s, query.s)
    \/ item.o.description.t = "string" /\ Contains(item.o.description.s, query.s)

\* the key a cursor stands for
CursorKey(cursor) == JsonParseKey(Base64Decode(cursor.s)).id

\* C6: along a cursor chain, the records returned so far are exactly the matching
\* records up to the cursor's key in scan order, each once; when the chain ends with
\* a null cursor they are all the matching records, each once.
C6_CursorChain ==
    /\ chain.state = "done" =>
         \A id \in AllIds :
            chain.seen[id] = IF store[id] # NoItem /\ Matches(store[id], chain.query) THEN 1 ELSE 0
    /\ chain.state = "open" =>
         \A id \in AllIds :
            chain.seen[id] = IF /\ store[id] # NoItem
                                /\ Matches(store[id], chain.query)
                                /\ PositionOf(scanOrder, id)
                                      <= PositionOf(scanOrder, CursorKey(chain.next))
                             THEN 1 ELSE 0

C6_Witness ==
    /\ chain.state = "done"
    /\ chain.pages >= 3
    /\ Truthy(chain.query)
    /\ \E id \in AllIds : chain.seen[id] = 1
    /\ \E id \in AllIds : store[id] # NoItem /\ chain.seen[id] = 0

\* the stored records after the cursor's key in scan order; a page without filter
\* holds them up to the page size and to what one scan call reads
Remaining(q) ==
    Cardinality({id \in AllIds :
        /\ store[id] # NoItem
        /\ PositionOf(scanOrder, id) >
              (IF Truthy(q.nextPageKey) THEN PositionOf(scanOrder, CursorKey(q.nextPageKey)) ELSE 0)})

C7_Listed == Op("listShoeProduct") /\ Returned(200)

\* C7: a list request with a query returns only records whose name or description
\* contains the query, case-sensitively; without a query (absent or empty) the page
\* is not filtered.
C7_QueryFilter ==
    C7_Listed =>
        LET q == last.req.q
            data == last.outcome.body.data
            size == last.outcome.body.pagination.pageSize
            most == IF MaxScanItems < size THEN MaxScanItems ELSE size
        IN IF Truthy(q.query)
           THEN \A i \in 1..Len(data) : Matches(data[i], q.query)
           ELSE Len(data) = IF Remaining(q) < most THEN Remaining(q) ELSE most

C7_Witness ==
    /\ C7_Listed
    /\ last.req.q.query = Str(S_A)
    /\ Len(last.outcome.body.data) >= 1
    /\ \E id \in AllIds : store[id] # NoItem /\ ~Matches(store[id], Str(S_A))

\* C8: every invocation ends in a returned response; no error is thrown out of a
\* handler.
C8_AlwaysResponds == ~Idle => last.outcome.kind = "return"

C9_Amount == last.req.body.o.amount

\* C9: createPaymentIntent calls the payment API only for a positive amount, with
\* amount * 100 in USD; for an absent, zero or negative amount it returns an error
\* response and no payment intent is created.
C9_PositiveAmountOnly ==
    (Op("createPaymentIntent") /\ last.req.body.t = "object") =>
        /\ \A i \in 1..Len(last.calls) :
              /\ C9_Amount.t = "number" /\ C9_Amount.n > 0
              /\ last.calls[i].amount = Num(C9_Amount.n * 100)
              /\ last.calls[i].currency = "USD"
        /\ (IsAbsent(C9_Amount) \/ (C9_Amount.t = "number" /\ C9_Amount.n <= 0)) =>
              /\ last.outcome.kind = "return" /\ last.outcome.statusCode >= 400
              /\ last.calls = <<>>

\* the product a success response carries
ProductOf(outcome, variant) == IF variant = "handlers" THEN outcome.body.data ELSE outcome.body

\* C10: every record's shoeProductID is the key it is stored under; create stores its
\* record under the generated identifier and update under the identifier of the path,
\* whatever shoeProductID the body names.
C10_IdentifierIsKey ==
    /\ \A id \in AllIds : store[id] # NoItem => store[id].o.shoeProductID = Str(id)
    /\ (Op("updateShoeProduct") /\ Returned(200)) =>
          /\ \A i \in 1..Len(last.calls) : last.calls[i].key = last.req.id
          /\ ProductOf(last.outcome, last.req.variant).o.shoeProductID = Str(last.req.id)
          /\ store[last.req.id] = ProductOf(last.outcome, last.req.variant)
    /\ (Op("createShoeProduct") /\ Returned(201)) =>
          LET product == ProductOf(last.outcome, last.req.variant) IN
          /\ product.o.shoeProductID.s \in issued
          /\ product.o.shoeProductID # last.req.body.o.shoeProductID
          /\ \A i \in 1..Len(last.calls) : last.calls[i].key = product.o.shoeProductID.s
          /\ store[product.o.shoeProductID.s] = product

C10_Witness ==
    /\ Op("updateShoeProduct") /\ Returned(200)
    /\ last.req.body.o.shoeProductID.t = "string"
    /\ last.req.body.o.shoeProductID # Str(last.req.id)
    /\ store[last.req.id].o.shoeProductID = Str(last.req.id)

\* fetchShoeProductById gave the item, not the not-found response
C11_Found(fetched) == "o" \in DOMAIN fetched

\* an update that finished after a delete of its record had reported success between
\* its check and its put
C11_Overtaken(n) ==
    /\ inflight[n].state = "done"
    /\ inflight[n].op = "updateShoeProduct"
    /\ inflight[n].overtaken

\* C11: the existence check and the mutation are separate store calls: when a delete
\* of the record completes between an update's check and its put, the update goes on
\* as if the record were still there: it puts the record, which is then stored under
\* the identifier although the delete has reported success, and returns what its
\* body alone decides (200 for a valid body).
C11_CheckThenPutRace ==
    [][\A n \in Invocations :
        (inflight[n].state = "checked" /\ C11_Overtaken(n)') =>
            LET id == inflight[n].id
                body == inflight[n].body
            IN IF validate("handlers", body) = <<>>
               THEN /\ inflight'[n].outcome.statusCode = 200
                    /\ store'[id] = WithShoeProductID(body, id)
               ELSE /\ inflight'[n].outcome.statusCode = 400
                    /\ store'[id] = store[id]]_vars

\* the update's check found the record, a delete whose check found it too removed it
\* and returned 204, and the update's put has stored a record under the identifier
C11_Witness ==
    \E n \in Invocations, m \in Invocations :
        /\ C11_Overtaken(n)
        /\ C11_Found(inflight[n].fetched)
        /\ inflight[n].outcome.statusCode = 200
        /\ inflight[m].state = "done"
        /\ inflight[m].op = "deleteShoeProduct"
        /\ inflight[m].id = inflight[n].id
        /\ C11_Found(inflight[m].fetched)
        /\ inflight[m].outcome.statusCode = 204
        /\ store[inflight[n].id] # NoItem

\* the page the scan of a list request gives, before it is sorted
C12_Page(q) ==
    Scan(store, scanOrder, IF Truthy(q.query) THEN q.query.s ELSE NoKey,
         NumberOr(q.pageSize, defaultPageSize),
         IF Truthy(q.nextPageKey) THEN CursorKey(q.nextPageKey) ELSE NoKey)

\* the page holds the records of the scan's page, each as often, and the cursor is
\* that of the scan
C12_SamePage ==
    LET page == C12_Page(last.req.q) IN
    /\ CountIds(last.outcome.body.data) = CountIds(page.Items)
    /\ last.outcome.body.pagination.nextPageKey =
          IF page.LastEvaluatedKey # NoKey
          THEN Str(EncodeCursor(page.LastEvaluatedKey)) ELSE NullV

C12_ByPrice(q) == Truthy(q.sortBy) /\ ToLowerCase(q.sortBy.s) = S_price
C12_Descending(q) == Truthy(q.sortOrder) /\ ToLowerCase(q.sortOrder.s) = S_desc

\* data is in the order of the key (price or identifier), ascending or descending
C12_Ordered(data, byPrice, descending) ==
    \A i \in 1..Len(data) : \A j \in (i + 1)..Len(data) :
        LET lo == IF descending THEN data[j] ELSE data[i]
            hi == IF descending THEN data[i] ELSE data[j]
        IN IF byPrice
           THEN NumberOr(lo.o.price, 0) <= NumberOr(hi.o.price, 0)
           ELSE LocaleCompare(KeyOf(lo), KeyOf(hi)) <= 0

\* C12: the page of a list response is the scan's page, sorted: by price when sortBy
\* asks for price and by identifier otherwise, ascending unless sortOrder asks for
\* descending; the records of the page and the nextPageKey are those of the scan.
C12_PageSorted ==
    C7_Listed =>
        /\ C12_SamePage
        /\ C12_Ordered(last.outcome.body.data, C12_ByPrice(last.req.q),
                       C12_Descending(last.req.q))

\* what holds of the order: sortOrder is honoured for price, and the order by
\* identifier is ascending whatever sortOrder asks for
C12_DescendingOnlyByPrice ==
    C7_Listed =>
        /\ C12_SamePage
        /\ C12_Ordered(last.outcome.body.data, C12_ByPrice(last.req.q),
                       C12_ByPrice(last.req.q) /\ C12_Descending(last.req.q))

\* the stored records that match the query of a list request
C13_Matching(q) == {id \in AllIds : store[id] # NoItem /\ Matches(store[id], q.query)}

\* C13: the totalCount of a list response is the number of all stored records that
\* match the query (all records when there is none), whatever pageSize and
\* nextPageKey the request carries.
C13_TotalCount ==
    C7_Listed =>
        last.outcome.body.pagination.totalCount = Cardinality(C13_Matching(last.req.q))

\* what holds of totalCount: it counts the matching records among those the one scan
\* call has read, which are all the records of a table that fits in one response
C13_CountsOneScan ==
    C7_Listed =>
        LET first == {scanOrder[i] : i \in {j \in 1..Len(scanOrder) :
                        Cardinality({k \in 1..j : store[scanOrder[k]] # NoItem})
                            <= MaxScanItems}}
        IN last.outcome.body.pagination.totalCount
              = Cardinality(C13_Matching(last.req.q) \cap first)

====
